---- MODULE Spec2Model ----
(***************************************************************************)
(* Model of rp2040-hal/src/xosc.rs: the typestate driver of the crystal    *)
(* oscillator (XOSC).  One action per public operation; the blocking       *)
(* helper setup_xosc_blocking is split at its poll loop, the only place    *)
(* where the hardware can act between two steps of the driver.             *)
(***************************************************************************)
EXTENDS Integers, Sequences, FiniteSets

VARIABLES
    owner,      \* who holds the XOSC handle: "caller", "controller", "dropped"
    state,      \* typestate of the live controller, "None" when there is none
    freq_hz,    \* Initialized.freq_hz / Stable.freq_hz, 0 in the other states
    regs,       \* the registers: ctrl, startup, dormant, status
    tokens,     \* StableOscillatorToken values the caller holds
    pc,         \* position inside setup_xosc_blocking, "idle" outside it
    polled,     \* the last setup_xosc_blocking call has read the status register
    sawStable,  \* its last read found the stable flag set (both cleared by the next call)
    op,         \* the operation that acted last
    arg_f,      \* its frequency argument (Hz)
    arg_d,      \* its stable_delay_millis argument
    ret,        \* its result
    ret_hz,     \* the value operating_frequency returned
    writes,     \* the register writes it performed, in order
    used,       \* provenance of the token consumed, when the last call was a promotion
    origin_hz,  \* frequency passed to the last successful initialize
    prev_hz     \* frequency of the Stable controller at the last disable

vars == <<owner, state, freq_hz, regs, tokens, pc, polled, sawStable,
          op, arg_f, arg_d, ret, ret_hz, writes, used, origin_hz, prev_hz>>

----------------------------------------------------------------------------
(* Bounds of the model *)

MaxTokens == 2

(* Program constants *)

U16 == 65536
MinHz == 1000000
MaxHz == 15000000
MaxDelayMillis == 1000
XOSC_DORMANT_VALUE == 1668246881

(* Inputs: both edges of each range, the values just outside them, the    *)
(* worked examples of the documentation and a frequency that is not a     *)
(* whole number of kHz.                                                   *)
Frequencies == {MinHz - 1, MinHz, 10000000, 12000000, MaxHz - 1, MaxHz, MaxHz + 1}
Delays == {0, 1, 100, 500, MaxDelayMillis, MaxDelayMillis + 1}

----------------------------------------------------------------------------
(* Registers.  A field is "reset" until an accessor sets it. *)

CTRL_RESET == [enable |-> "reset", freq_range |-> "reset"]

CtrlField(f, v) == [reg |-> "ctrl", access |-> "write", field |-> f, variant |-> v]
CtrlModify(f, v) == [reg |-> "ctrl", access |-> "modify", field |-> f, variant |-> v]
StartupWrite(n) == [reg |-> "startup", access |-> "write", field |-> "delay", bits |-> n]
DormantWriteTruncated(n) ==
    [reg |-> "dormant", access |-> "write", field |-> "bits", bits |-> n % 65536]
DormantWrite(n) == [reg |-> "dormant", access |-> "write", field |-> "bits", bits |-> n]

(* write() builds the value from the register's reset value, modify()     *)
(* from its current value.                                                *)
ApplyWrite(r, w) ==
    IF w.reg = "ctrl"
    THEN IF w.access = "write"
         THEN [r EXCEPT !.ctrl = [CTRL_RESET EXCEPT ![w.field] = w.variant]]
         ELSE [r EXCEPT !.ctrl = [r.ctrl EXCEPT ![w.field] = w.variant]]
    ELSE IF w.reg = "startup"
         THEN [r EXCEPT !.startup = w.bits]
         ELSE [r EXCEPT !.dormant = w.bits]

RECURSIVE ApplyWrites(_, _)
ApplyWrites(r, ws) ==
    IF ws = <<>> THEN r ELSE ApplyWrites(ApplyWrite(r, Head(ws)), Tail(ws))

----------------------------------------------------------------------------
(* initialize: validation and arithmetic *)

FrequencyAllowedNoLower(f) == f <= MaxHz
FrequencyAllowedExclusive(f) == MinHz < f /\ f < MaxHz
FrequencyAllowed(f) == MinHz <= f /\ f <= MaxHz

DelayAllowedWide(d) == d # 0 /\ d <= 10 * MaxDelayMillis
DelayAllowed(d) == d # 0 /\ d >= 1 /\ d <= MaxDelayMillis

to_kHzRounded(f) == (f + 500) \div 1000
to_kHz(f) == f \div 1000

(* (a * b) / 256 in u32 arithmetic: the product wraps modulo 2^32 before  *)
(* the division.  It is computed on the bytes of a and b so that no       *)
(* intermediate value leaves the range of the checker's integers.         *)
Byte(a, i) == (a \div (256 ^ i)) % 256
MulDiv256(a, b) ==
    LET c0 == Byte(a, 0) * Byte(b, 0)
        c1 == Byte(a, 0) * Byte(b, 1) + Byte(a, 1) * Byte(b, 0)
        c2 == Byte(a, 0) * Byte(b, 2) + Byte(a, 1) * Byte(b, 1) + Byte(a, 2) * Byte(b, 0)
        c3 == Byte(a, 0) * Byte(b, 3) + Byte(a, 1) * Byte(b, 2)
              + Byte(a, 2) * Byte(b, 1) + Byte(a, 3) * Byte(b, 0)
    IN  ((c0 \div 256) + c1 + (c2 % 65536) * 256 + (c3 % 256) * 65536) % 16777216

(* startup_delay as u16 *)
StartupDelayHzFirst(f, d) == (MulDiv256(f, d) \div 1000) % U16
StartupDelay(f, d) == MulDiv256(to_kHz(f), d) % U16

InitializeResultDelayFirst(f, d) ==
    IF ~DelayAllowed(d) THEN "BadArgument"
    ELSE IF ~FrequencyAllowed(f) THEN "FrequencyOutOfRange"
    ELSE "Ok"

InitializeResult(f, d) ==
    IF ~FrequencyAllowed(f) THEN "FrequencyOutOfRange"
    ELSE IF ~DelayAllowed(d) THEN "BadArgument"
    ELSE "Ok"

InitializeWritesEnableFirst(f, d) ==
    IF ~FrequencyAllowed(f) THEN <<>>
    ELSE <<CtrlField("freq_range", "_1_15mhz")>> \o
         (IF ~DelayAllowed(d) THEN <<>>
          ELSE <<CtrlField("enable", "enable"), StartupWrite(StartupDelay(f, d))>>)

InitializeWrites(f, d) ==
    IF ~FrequencyAllowed(f) THEN <<>>
    ELSE <<CtrlField("freq_range", "_1_15mhz")>> \o
         (IF ~DelayAllowed(d) THEN <<>>
          ELSE <<StartupWrite(StartupDelay(f, d)), CtrlField("enable", "enable")>>)

----------------------------------------------------------------------------
TokenKinds == {"fresh", "stale"}

Held == tokens["fresh"] + tokens["stale"]

Init ==
    /\ owner = "caller"
    /\ state = "None"
    /\ freq_hz = 0
    /\ regs = [ctrl |-> CTRL_RESET, startup |-> 0, dormant |-> 0, status |-> FALSE]
    /\ tokens = [k \in TokenKinds |-> 0]
    /\ pc = "idle"
    /\ polled = FALSE
    /\ sawStable = FALSE
    /\ op = "none"
    /\ arg_f = 0
    /\ arg_d = 0
    /\ ret = "none"
    /\ ret_hz = 0
    /\ writes = <<>>
    /\ used = "none"
    /\ origin_hz = 0
    /\ prev_hz = 0

Idle == pc = "idle"

(* await_stabilization: Err(WouldBlock) while the stable bit is clear *)
AwaitResultInverted(stable) == IF stable THEN "WouldBlock" ELSE "Token"
AwaitResult(stable) == IF ~stable THEN "WouldBlock" ELSE "Token"

(* get_stable: let freq_hz = self.state.freq_hz *)
StableFreqFromKHz(f) == to_kHz(f) * 1000
StableFreq(f) == f

(* nb::block!: loop on Err(WouldBlock), leave on Ok *)
BlockNextOnce(r) == "finalize"
BlockNextNever(r) == "block"
BlockNext(r) == IF r = "WouldBlock" THEN "block" ELSE "finalize"

(* free: returns self.device and touches no register *)
FreeWritesDisable == <<CtrlModify("enable", "disable")>>
FreeWrites == <<>>

(* disable: ctrl.modify(enable = disable) *)
DisableWritesByWrite == <<CtrlField("enable", "disable")>>
DisableWrites == <<CtrlModify("enable", "disable")>>

(* get_stable takes the token by value *)
TokensAfterGetStableCopy(t, k) == t
TokensAfterGetStable(t, k) == [t EXCEPT ![k] = @ - 1]

(* what every call records about itself *)
Call(name, f, d, r, hz, ws) ==
    /\ op' = name
    /\ arg_f' = f
    /\ arg_d' = d
    /\ ret' = r
    /\ ret_hz' = hz
    /\ writes' = ws
    /\ regs' = ApplyWrites(regs, ws)

new ==
    /\ Idle
    /\ owner = "caller"
    /\ owner' = "controller"
    /\ state' = "Disabled"
    /\ Call("new", 0, 0, "Ok", 0, <<>>)
    /\ used' = "none"
    /\ polled' = FALSE
    /\ sawStable' = FALSE
    /\ UNCHANGED <<freq_hz, tokens, pc, origin_hz, prev_hz>>

free ==
    /\ Idle
    /\ owner = "controller"
    /\ owner' = "caller"
    /\ state' = "None"
    /\ freq_hz' = 0
    /\ Call("free", 0, 0, "Ok", 0, FreeWrites)
    /\ used' = "none"
    /\ polled' = FALSE
    /\ sawStable' = FALSE
    /\ UNCHANGED <<tokens, pc, origin_hz, prev_hz>>

(* the body of initialize on a Disabled controller: self is consumed, and *)
(* only the Ok branch hands it back                                       *)
InitializeBody(f, d) ==
    IF InitializeResult(f, d) = "Ok"
    THEN /\ owner' = "controller"
         /\ state' = "Initialized"
         /\ freq_hz' = f
         /\ origin_hz' = f
         /\ tokens' = [k \in TokenKinds |-> IF k = "stale" THEN Held ELSE 0]
    ELSE /\ owner' = "dropped"
         /\ state' = "None"
         /\ freq_hz' = 0
         /\ UNCHANGED <<origin_hz, tokens>>

initialize(f, d) ==
    /\ Idle
    /\ owner = "controller"
    /\ state = "Disabled"
    /\ InitializeBody(f, d)
    /\ Call("initialize", f, d, InitializeResult(f, d), 0, InitializeWrites(f, d))
    /\ used' = "none"
    /\ polled' = FALSE
    /\ sawStable' = FALSE
    /\ UNCHANGED <<pc, prev_hz>>

await_stabilization(keep) ==
    /\ Idle
    /\ owner = "controller"
    /\ state = "Initialized"
    /\ keep => Held < MaxTokens
    /\ Call("await_stabilization", 0, 0, AwaitResult(regs.status), 0, <<>>)
    /\ tokens' = IF AwaitResult(regs.status) = "Token" /\ keep
                 THEN [tokens EXCEPT !["fresh"] = @ + 1]
                 ELSE tokens
    /\ used' = "none"
    /\ polled' = FALSE
    /\ sawStable' = FALSE
    /\ UNCHANGED <<owner, state, freq_hz, pc, origin_hz, prev_hz>>

get_stable(k) ==
    /\ Idle
    /\ owner = "controller"
    /\ state = "Initialized"
    /\ tokens[k] > 0
    /\ tokens' = TokensAfterGetStable(tokens, k)
    /\ state' = "Stable"
    /\ freq_hz' = StableFreq(freq_hz)
    /\ used' = k
    /\ Call("get_stable", 0, 0, "Ok", 0, <<>>)
    /\ polled' = FALSE
    /\ sawStable' = FALSE
    /\ UNCHANGED <<owner, pc, origin_hz, prev_hz>>

operating_frequency ==
    /\ Idle
    /\ owner = "controller"
    /\ state = "Stable"
    /\ Call("operating_frequency", 0, 0, "Hz", freq_hz, <<>>)
    /\ used' = "none"
    /\ polled' = FALSE
    /\ sawStable' = FALSE
    /\ UNCHANGED <<owner, state, freq_hz, tokens, pc, origin_hz, prev_hz>>

disable ==
    /\ Idle
    /\ owner = "controller"
    /\ state = "Stable"
    /\ state' = "Disabled"
    /\ freq_hz' = 0
    /\ prev_hz' = freq_hz
    /\ Call("disable", 0, 0, "Ok", 0, DisableWrites)
    /\ used' = "none"
    /\ polled' = FALSE
    /\ sawStable' = FALSE
    /\ UNCHANGED <<owner, tokens, pc, origin_hz>>

dormant ==
    /\ Idle
    /\ owner = "controller"
    /\ state = "Stable"
    /\ state' = "Dormant"
    /\ freq_hz' = 0
    /\ Call("dormant", 0, 0, "Ok", 0, <<DormantWrite(XOSC_DORMANT_VALUE)>>)
    /\ used' = "none"
    /\ polled' = FALSE
    /\ sawStable' = FALSE
    /\ UNCHANGED <<owner, tokens, pc, origin_hz, prev_hz>>

----------------------------------------------------------------------------
(* setup_xosc_blocking: new + initialize, the nb::block! loop, get_stable *)

setup_xosc_blocking(f, d) ==
    /\ Idle
    /\ owner = "caller"
    /\ InitializeBody(f, d)
    /\ pc' = IF InitializeResult(f, d) = "Ok" THEN "block" ELSE "idle"
    /\ polled' = FALSE
    /\ sawStable' = FALSE
    /\ Call(IF InitializeResult(f, d) = "Ok" THEN "setup_initialize" ELSE "setup_xosc_blocking",
            f, d, InitializeResult(f, d), 0, InitializeWrites(f, d))
    /\ used' = "none"
    /\ UNCHANGED <<prev_hz>>

setup_poll ==
    /\ pc = "block"
    /\ polled' = TRUE
    /\ sawStable' = regs.status
    /\ pc' = BlockNext(AwaitResult(regs.status))
    /\ Call("setup_poll", arg_f, arg_d, AwaitResult(regs.status), 0, <<>>)
    /\ used' = "none"
    /\ UNCHANGED <<owner, state, freq_hz, tokens, origin_hz, prev_hz>>

setup_return ==
    /\ pc = "finalize"
    /\ pc' = "idle"
    /\ state' = "Stable"
    /\ freq_hz' = StableFreq(freq_hz)
    /\ used' = "fresh"
    /\ Call("setup_xosc_blocking", arg_f, arg_d, "Ok", 0, <<>>)
    /\ UNCHANGED <<owner, tokens, polled, sawStable, origin_hz, prev_hz>>

----------------------------------------------------------------------------
(* The oscillator: the stable flag of the status register is its to set   *)
(* and clear.  The arguments of a setup_xosc_blocking call in progress    *)
(* stay on its frame.                                                     *)

hw_status(b) ==
    /\ regs.status # b
    /\ regs' = [regs EXCEPT !.status = b]
    /\ op' = "hw"
    /\ arg_f' = IF Idle THEN 0 ELSE arg_f
    /\ arg_d' = IF Idle THEN 0 ELSE arg_d
    /\ ret' = "none"
    /\ ret_hz' = 0
    /\ writes' = <<>>
    /\ used' = "none"
    /\ UNCHANGED <<owner, state, freq_hz, tokens, pc, polled, sawStable, origin_hz, prev_hz>>

Next ==
    \/ new
    \/ free
    \/ \E f \in Frequencies, d \in Delays : initialize(f, d)
    \/ \E keep \in BOOLEAN : await_stabilization(keep)
    \/ \E k \in TokenKinds : get_stable(k)
    \/ operating_frequency
    \/ disable
    \/ dormant
    \/ \E f \in Frequencies, d \in Delays : setup_xosc_blocking(f, d)
    \/ setup_poll
    \/ setup_return
    \/ \E b \in BOOLEAN : hw_status(b)

Spec == Init /\ [][Next]_vars

(* The processor keeps executing a call in progress: the busy loop of     *)
(* nb::block! takes its next iteration and the code after it runs.        *)
LiveSpec == Init /\ [][Next]_vars /\ WF_vars(setup_poll) /\ WF_vars(setup_return)

----------------------------------------------------------------------------
(* C1: initialize(f, d) on a Disabled controller with f in [1 MHz, 15 MHz] *)
(* and d = 0 or d > 1000 fails with BadArgument and performs no register   *)
(* write: the control, startup-delay and dormant registers are unchanged.  *)
C1_BadDelayWritesNothing ==
    [][(op' = "initialize" /\ 1000000 <= arg_f' /\ arg_f' <= 15000000
            /\ (arg_d' = 0 \/ arg_d' > 1000))
        => /\ ret' = "BadArgument"
           /\ writes' = <<>>
           /\ regs'.ctrl = regs.ctrl
           /\ regs'.startup = regs.startup
           /\ regs'.dormant = regs.dormant]_vars

(* C2: initialize(f, d) with f < 1 MHz or f > 15 MHz and d in [1, 1000]    *)
(* fails with FrequencyOutOfRange and writes no register; every f in       *)
(* [1 000 000, 15 000 000], endpoints included, passes the frequency check.*)
C2_FrequencyRange ==
    [][op' = "initialize"
        => /\ ((arg_f' < 1000000 \/ arg_f' > 15000000) /\ 1 <= arg_d' /\ arg_d' <= 1000)
                => (ret' = "FrequencyOutOfRange" /\ writes' = <<>> /\ regs' = regs)
           /\ (1000000 <= arg_f' /\ arg_f' <= 15000000)
                => ret' # "FrequencyOutOfRange"]_vars

C2_Witness ==
    /\ op = "initialize"
    /\ arg_f = 15000001
    /\ arg_d = 1000
    /\ ret = "FrequencyOutOfRange"
    /\ writes = <<>>

(* C3: every get_stable promotion consumes a readiness observation made    *)
(* after the initialize call that produced the promoted controller.        *)
C3_PromotionObservedSinceInitialize ==
    op \in {"get_stable", "setup_xosc_blocking"} /\ state = "Stable" => used = "fresh"

(* C4: after a successful initialize(f, d) the control register has the    *)
(* 1-15 MHz range selected and the enable bit set at once, the             *)
(* startup-delay register holds the computed count and the controller is   *)
(* Initialized carrying f.                                                 *)
C4_InitializedHardwareState ==
    (op = "initialize" /\ ret = "Ok")
        => /\ regs.ctrl.freq_range = "_1_15mhz"
           /\ regs.ctrl.enable = "enable"
           /\ regs.startup = ((arg_f \div 1000) * arg_d) \div 256
           /\ state = "Initialized"
           /\ freq_hz = arg_f

(* C5: for every valid (f, d) initialize succeeds and the startup-delay    *)
(* register holds floor(floor(f / 1000) * d / 256); (12 MHz, 100 ms) gives *)
(* 4687 and (10 MHz, 500 ms) gives 19531.                                  *)
C5_StartupDelayValue ==
    (op = "initialize" /\ 1000000 <= arg_f /\ arg_f <= 15000000 /\ 1 <= arg_d /\ arg_d <= 1000)
        => /\ ret = "Ok"
           /\ regs.startup = ((arg_f \div 1000) * arg_d) \div 256
           /\ writes[2] = StartupWrite(((arg_f \div 1000) * arg_d) \div 256)
           /\ (arg_f = 12000000 /\ arg_d = 100) => regs.startup = 4687
           /\ (arg_f = 10000000 /\ arg_d = 500) => regs.startup = 19531

C5_Witness ==
    /\ op = "initialize"
    /\ arg_f = 12000000
    /\ arg_d = 100
    /\ regs.startup = 4687

(* C6: for every input that passes both validations the product            *)
(* kHz(f) * d is at most 15 000 000, so the u32 multiplication does not    *)
(* wrap, and the quotient by 256 is at most 58593, so the narrowing to     *)
(* u16 keeps its value; (15 MHz, 1000 ms) attains 58593.                   *)
C6_NoOverflow ==
    (op = "initialize" /\ ret = "Ok")
        => /\ (arg_f \div 1000) * arg_d <= 15000000
           /\ ((arg_f \div 1000) * arg_d) \div 256 <= 58593
           /\ MulDiv256(to_kHz(arg_f), arg_d) = ((arg_f \div 1000) * arg_d) \div 256
           /\ MulDiv256(to_kHz(arg_f), arg_d) < 65536
           /\ regs.startup = MulDiv256(to_kHz(arg_f), arg_d)

C6_Witness ==
    /\ op = "initialize"
    /\ ret = "Ok"
    /\ arg_f = 15000000
    /\ arg_d = 1000
    /\ regs.startup = 58593

(* C7: operating_frequency on a Stable controller returns the frequency    *)
(* passed to the initialize call that originated the controller, whatever  *)
(* the registers hold by then; get_stable carries the stored frequency     *)
(* forward unchanged.                                                      *)
C7_FrequencyPreserved ==
    [][/\ op' = "operating_frequency" => ret_hz' = origin_hz'
       /\ state' = "Stable" => freq_hz' = origin_hz'
       /\ op' = "get_stable" => freq_hz' = freq_hz]_vars

C7_Witness ==
    /\ op = "operating_frequency"
    /\ ret_hz = 14999999
    /\ origin_hz = 14999999
    /\ ~regs.status

(* C8: the peripheral handle is never lost or duplicated: it is held by    *)
(* the one live controller or by the caller, after any sequence of         *)
(* operations, initialize failing included.                                *)
C8_HandleNeverLost ==
    /\ owner \in {"caller", "controller"}
    /\ owner = "controller" <=> state # "None"

(* C9: await_stabilization returns WouldBlock when the stable flag is      *)
(* clear and a token when it is set, nothing else; it writes no register   *)
(* and leaves the controller Initialized with the same frequency.          *)
C9_AwaitIsPurePoll ==
    [][op' = "await_stabilization"
        => /\ state = "Initialized"
           /\ ret' = (IF regs.status THEN "Token" ELSE "WouldBlock")
           /\ writes' = <<>>
           /\ regs' = regs
           /\ state' = "Initialized"
           /\ freq_hz' = freq_hz
           /\ owner' = owner]_vars

C9_Witness ==
    /\ op = "await_stabilization"
    /\ ret = "Token"
    /\ state = "Initialized"
    /\ tokens["fresh"] >= 2

(* C10: setup_xosc_blocking returns the error of initialize without having *)
(* polled the status register when initialize fails; otherwise it returns  *)
(* a Stable controller whose frequency is f, after one of its polls has    *)
(* observed the stable flag set.                                           *)
C10_SetupBlocking ==
    op = "setup_xosc_blocking"
        => /\ (arg_f < 1000000 \/ arg_f > 15000000) => ret = "FrequencyOutOfRange"
           /\ (1000000 <= arg_f /\ arg_f <= 15000000 /\ (arg_d = 0 \/ arg_d > 1000))
                => ret = "BadArgument"
           /\ ret # "Ok" => (~polled /\ state = "None")
           /\ (1000000 <= arg_f /\ arg_f <= 15000000 /\ 1 <= arg_d /\ arg_d <= 1000)
                => /\ ret = "Ok"
                   /\ state = "Stable"
                   /\ freq_hz = arg_f
                   /\ polled
                   /\ sawStable

C10_Witness ==
    /\ op = "setup_xosc_blocking"
    /\ ret = "Ok"
    /\ state = "Stable"
    /\ freq_hz = 10000000
    /\ sawStable

(* C11: with valid arguments setup_xosc_blocking returns if the stable     *)
(* flag is eventually set and stays set, and it leaves its poll loop only  *)
(* on a poll that found the flag set: with the flag clear it spins on.     *)
C11_BlockingTermination ==
    /\ <>[](regs.status) => []<>(pc = "idle")
    /\ [][pc = "block" => (pc' = "block" \/ (regs.status /\ op' = "setup_poll"))]_vars

C11_Witness ==
    /\ pc = "block"
    /\ op = "setup_poll"
    /\ ret = "WouldBlock"
    /\ ~regs.status

(* C12: after a disable, initialize(f2, d2) with valid arguments and f2    *)
(* different from the earlier frequency succeeds and programs the          *)
(* startup-delay register for (f2, d2); the Stable controller that         *)
(* follows reports f2, not the earlier frequency.                          *)
C12_ReinitializeNewFrequency ==
    /\ (op = "initialize" /\ prev_hz # 0 /\ arg_f # prev_hz
            /\ 1000000 <= arg_f /\ arg_f <= 15000000 /\ 1 <= arg_d /\ arg_d <= 1000)
        => /\ ret = "Ok"
           /\ state = "Initialized"
           /\ freq_hz = arg_f
           /\ regs.startup = ((arg_f \div 1000) * arg_d) \div 256
    /\ (op = "operating_frequency" /\ prev_hz # 0 /\ origin_hz # prev_hz)
        => (ret_hz = origin_hz /\ ret_hz # prev_hz)

C12_Witness ==
    /\ op = "operating_frequency"
    /\ prev_hz = 15000000
    /\ origin_hz = 10000000
    /\ ret_hz = 10000000
    /\ regs.startup = 19531

(* C13: disable clears the enable field of the control register by         *)
(* read-modify-write and changes nothing else: the range selector, the     *)
(* startup-delay and the dormant register keep their values, and the       *)
(* result is a Disabled controller holding the same handle.                *)
C13_DisableFrame ==
    [][op' = "disable"
        => /\ state = "Stable"
           /\ Len(writes') = 1
           /\ writes'[1].reg = "ctrl"
           /\ writes'[1].access = "modify"
           /\ regs'.ctrl.enable = "disable"
           /\ regs'.ctrl.freq_range = regs.ctrl.freq_range
           /\ regs'.startup = regs.startup
           /\ regs'.dormant = regs.dormant
           /\ regs'.status = regs.status
           /\ state' = "Disabled"
           /\ owner = "controller"
           /\ owner' = "controller"]_vars

C13_Witness ==
    /\ op = "disable"
    /\ state = "Disabled"
    /\ regs.ctrl.enable = "disable"
    /\ regs.startup = 4687

(* C14: dormant writes 0x636f6d61 to the dormant register and nothing      *)
(* else and yields a Dormant controller; a Dormant controller stays        *)
(* Dormant until free takes the handle out of it.                          *)
C14_DormantTerminal ==
    [][/\ op' = "dormant"
            => /\ state = "Stable"
               /\ Len(writes') = 1
               /\ writes'[1].reg = "dormant"
               /\ regs'.dormant = 1668246881
               /\ regs'.ctrl = regs.ctrl
               /\ regs'.startup = regs.startup
               /\ regs'.status = regs.status
               /\ state' = "Dormant"
       /\ state = "Dormant"
            => \/ state' = "Dormant"
               \/ (op' = "free" /\ state' = "None" /\ owner' = "caller")]_vars

C14_Witness ==
    /\ op = "free"
    /\ state = "None"
    /\ owner = "caller"
    /\ regs.dormant = 1668246881

(* C15: a controller tagged Initialized or Stable carries a frequency in   *)
(* [1 MHz, 15 MHz], the one that passed validation in the initialize call  *)
(* it comes from.                                                          *)
C15_ValidatedFrequency ==
    state \in {"Initialized", "Stable"}
        => /\ 1000000 <= freq_hz
           /\ freq_hz <= 15000000
           /\ freq_hz = origin_hz

C15_Witness ==
    /\ state = "Stable"
    /\ freq_hz = 1000000
    /\ op = "get_stable"

(* C16: new, get_stable and free write no register: every register holds   *)
(* the same value after the call as before it.                             *)
C16_NoHardwareEffect ==
    [][op' \in {"new", "get_stable", "free"} => (writes' = <<>> /\ regs' = regs)]_vars

C16_Witness ==
    /\ op = "free"
    /\ owner = "caller"
    /\ regs.ctrl.enable = "enable"
    /\ regs.startup = 58593

(* C17: a readiness proof comes only from a poll of an Initialized         *)
(* controller that found the stable flag set, and every promotion consumes *)
(* exactly one proof: the proofs in hand grow by one per successful        *)
(* observation at most, shrink by one per promotion and never go negative. *)
Proofs == Held + (IF pc = "finalize" THEN 1 ELSE 0)

C17_ProofsConsumedOnce ==
    [][/\ (state' = "Stable" /\ state # "Stable") => (Proofs >= 1 /\ Proofs' = Proofs - 1)
       /\ Proofs' > Proofs
            => /\ Proofs' = Proofs + 1
               /\ regs.status
               /\ state = "Initialized"
               /\ op' \in {"await_stabilization", "setup_poll"}
       /\ \A k \in TokenKinds : tokens'[k] >= 0]_vars

C17_Witness ==
    /\ op = "get_stable"
    /\ state = "Stable"
    /\ tokens["fresh"] = 1
    /\ tokens["stale"] = 0

(* C18: a successful initialize writes the range selection to the control  *)
(* register first, the startup-delay register second and the enable bit    *)
(* last; after none of its writes is the enable bit set while the          *)
(* startup-delay register holds a value other than the computed count.     *)
C18_WriteOrder ==
    [][(op' \in {"initialize", "setup_initialize"} /\ ret' = "Ok")
        => /\ Len(writes') = 3
           /\ writes'[1].reg = "ctrl"
           /\ writes'[1].field = "freq_range"
           /\ writes'[2].reg = "startup"
           /\ writes'[2].bits = ((arg_f' \div 1000) * arg_d') \div 256
           /\ writes'[3].reg = "ctrl"
           /\ writes'[3].field = "enable"
           /\ writes'[3].variant = "enable"
           /\ \A i \in 1..Len(writes') :
                ApplyWrites(regs, SubSeq(writes', 1, i)).ctrl.enable = "enable"
                    => ApplyWrites(regs, SubSeq(writes', 1, i)).startup
                           = ((arg_f' \div 1000) * arg_d') \div 256]_vars

C18_Witness ==
    /\ op = "initialize"
    /\ ret = "Ok"
    /\ prev_hz = 12000000
    /\ arg_f = 15000000
    /\ Len(writes) = 3
    /\ writes[3].field = "enable"

(* C19: while the controller is Initialized or Stable the enable bit of    *)
(* the control register is set, and the bit is cleared only by disable,    *)
(* which moves the controller to Disabled.                                 *)
C19_EnableFollowsState ==
    [][/\ state' \in {"Initialized", "Stable"} => regs'.ctrl.enable = "enable"
       /\ (regs.ctrl.enable = "enable" /\ regs'.ctrl.enable # "enable")
            => (op' = "disable" /\ state' = "Disabled")]_vars

(* C20: with both arguments invalid initialize returns FrequencyOutOfRange: *)
(* the frequency is checked first, and the result depends on (f, d) only.  *)
C20_FrequencyCheckedFirst ==
    op = "initialize"
        => /\ ((arg_f < 1000000 \/ arg_f > 15000000) /\ (arg_d = 0 \/ arg_d > 1000))
                => ret = "FrequencyOutOfRange"
           /\ ret = IF arg_f < 1000000 \/ arg_f > 15000000 THEN "FrequencyOutOfRange"
                    ELSE IF arg_d = 0 \/ arg_d > 1000 THEN "BadArgument"
                    ELSE "Ok"

C20_Witness ==
    /\ op = "initialize"
    /\ arg_f = 15000001
    /\ arg_d = 1001
    /\ ret = "FrequencyOutOfRange"
    /\ regs.startup = 58593
    /\ regs.ctrl.enable = "disable"

====
